---- MODULE Spec2Model ----
(***************************************************************************)
(* Model of scripts-cims/primer_specificity.py: the EMBOSS primersearch    *)
(* parser (read_primersearch_result), the hit classification               *)
(* (read_amplicon_info), the two kraken-translate label parsers            *)
(* (read_kraken_labels, hash_kraken_labels) and the batch loop of the      *)
(* script body that joins both and writes the report rows.                 *)
(*                                                                         *)
(* Text is modelled structurally.  A primersearch line is the sequence of  *)
(* its tokens under line.split(" "), the leading tab being part of the     *)
(* first token; a kraken line is the sequence of its tab-separated         *)
(* columns, each column the sequence of its ';'-separated segments.  The   *)
(* string operations of the code are operators over these shapes, given    *)
(* for the finite vocabulary the inputs are drawn from.                    *)
(***************************************************************************)
EXTENDS Integers, Sequences, FiniteSets, TLC

VARIABLES
    handle,       \* read_amplicon_info: the lines `for line in handle` has read
    st,           \* locals of read_primersearch_result: record, name, amplifier
    pc,           \* control point of read_amplicon_info
    ret,          \* value returned by read_amplicon_info
    labels,       \* the lines of the kraken-translate file
    rk,           \* read_kraken_labels: [pos, taxonomy, exc, pc]
    hk,           \* hash_kraken_labels: [pos, hash, exc, pc]
    emboss_paths, \* __main__: the emboss files of the run, by file name
    unit,         \* __main__: index of the emboss file the batch loop is at
    mpc,          \* __main__: control point
    hash_labels,  \* __main__: hash_labels of the current unit
    nread,        \* __main__: lines read from the file being parsed
    record,       \* __main__: locals of the read_primersearch_result call
    todo,         \* __main__: primer ids the row loop has not visited yet
    cur,          \* __main__: [primer_id, hit_count, i] of the row loop
    outfile,      \* __main__: rows written to the report
    exc           \* __main__: the uncaught exception that ended the run

vars == <<handle, st, pc, ret, labels, rk, hk,
          emboss_paths, unit, mpc, hash_labels, nread, record, todo, cur, outfile, exc>>

(***************************************************************************)
(* Bounds of the model.                                                    *)
(***************************************************************************)
MaxLines == 5          \* lines of a primersearch file given to the parser
MaxLabelLines == 3     \* lines of a kraken-translate file
MaxUnits == 2          \* emboss files of one run of the script
MaxUnitLines == 6      \* lines of a primersearch file inside the batch loop
MaxUnitLabels == 2     \* lines of a kraken file inside the batch loop

Range(s) == {s[i] : i \in 1..Len(s)}

SeqsUpTo(S, n) == UNION {[1..k -> S] : k \in 0..n}

(***************************************************************************)
(* Exceptions.  arg is the text the exception carries, as tokens.          *)
(***************************************************************************)
NoExc == [type |-> "", arg |-> <<>>]

IndexError == [type |-> "IndexError",
               arg |-> <<"list", "index", "out", "of", "range">>]

ValueError(tok) ==
    [type |-> "ValueError",
     arg |-> <<"invalid", "literal", "for", "int()", "with", "base", "10:", tok>>]

UnboundLocalError(v) ==
    [type |-> "UnboundLocalError",
     arg |-> <<"local", "variable", v, "referenced", "before", "assignment">>]

KeyError(k) == [type |-> "KeyError", arg |-> k]

(***************************************************************************)
(* Amplifier.__init__                                                      *)
(***************************************************************************)
Amplifier ==
    [amp_len |-> 0, contig_id |-> "", contig_len |-> 0,
     f_primer |-> "", f_start |-> 0, f_mismatch |-> 0,
     r_primer |-> "", r_start |-> 0, r_mismatch |-> 0]

(***************************************************************************)
(* String operations on tokens of the vocabulary.                          *)
(***************************************************************************)
IntLiterals == {"0", "1", "10", "480", "470", "500"}

\* whether int(tok) succeeds
IsIntLiteral(tok) == tok \in IntLiterals

\* int(tok) for a literal
int(tok) ==
    CASE tok = "0" -> 0
      [] tok = "1" -> 1
      [] tok = "10" -> 10
      [] tok = "480" -> 480
      [] tok = "470" -> 470
      [] tok = "500" -> 500

\* tok.strip("[]")
strip_brackets(tok) ==
    CASE tok = "[480]" -> "480"
      [] tok = "[x]" -> "x"
      [] OTHER -> tok

\* tok.lstrip("\t")
lstrip_tab(tok) ==
    CASE tok = "\tATG" -> "ATG"
      [] tok = "\tCGT" -> "CGT"
      [] tok = "\tSequence:" -> "Sequence:"
      [] tok = "\tlength=500" -> "length=500"
      [] tok = "\tAmplimer" -> "Amplimer"
      [] tok = "\tdescription" -> "description"
      [] OTHER -> tok

\* line.replace("\tlength=", "").split(): the whitespace tokens left
after_length_marker(line) ==
    <<CASE line[1] = "\tlength=500" -> "500" [] OTHER -> line[1]>>
        \o SubSeq(line, 2, Len(line))

\* not line.strip()
IsBlank(line) == \A i \in 1..Len(line) : line[i] = ""

startswith_PrimerName(line) ==
    Len(line) >= 2 /\ line[1] = "Primer" /\ line[2] = "name"

startswith_Amplimer(line) == Len(line) >= 1 /\ line[1] = "Amplimer"

startswith_Sequence(line) == Len(line) >= 2 /\ line[1] = "\tSequence:"

startswith_length(line) == Len(line) >= 1 /\ line[1] = "\tlength=500"

startswith_AmplimerLength(line) ==
    Len(line) >= 3 /\ line[1] = "\tAmplimer" /\ line[2] = "length:"

\* "forward strand" in line
contains_forward_strand(line) ==
    \E i \in 1..(Len(line) - 1) : line[i] = "forward" /\ line[i + 1] = "strand"

\* "reverse strand" in line
contains_reverse_strand(line) ==
    \E i \in 1..(Len(line) - 1) : line[i] = "reverse" /\ line[i + 1] = "strand"

(***************************************************************************)
(* The primersearch lines the inputs are drawn from.                       *)
(***************************************************************************)
L_Blank == <<"">>
L_P1 == <<"Primer", "name", "P1">>
L_P2 == <<"Primer", "name", "P2">>
L_Amp == <<"Amplimer", "1">>
L_Seq1 == <<"\tSequence:", "c1">>
L_Seq2 == <<"\tSequence:", "c2">>
L_Len == <<"\tlength=500", "bp">>
L_Fwd == <<"\tATG", "hits", "forward", "strand", "at", "10", "with", "0", "mismatches">>
L_FwdShort == <<"\tATG", "forward", "strand", "at", "10">>
L_FwdBad == <<"\tATG", "hits", "forward", "strand", "at", "x", "with", "0", "mismatches">>
L_Rev == <<"\tCGT", "hits", "reverse", "strand", "at", "[480]", "with", "1", "mismatches">>
L_AmpLen == <<"\tAmplimer", "length:", "470", "bp">>
L_Other == <<"\tdescription">>
L_PrimerFwd == <<"Primer", "name", "forward", "strand">>

ReportLines ==
    {L_Blank, L_P1, L_P2, L_Amp, L_Seq1, L_Seq2, L_Len, L_Fwd, L_FwdShort,
     L_FwdBad, L_Rev, L_AmpLen, L_Other, L_PrimerFwd}

(***************************************************************************)
(* read_primersearch_result.  The locals are one record: amplifiers is     *)
(* record.amplifiers (primer name -> list of Amplifier objects, an object  *)
(* being its index in heap), name and amplifier are the loop's cursors     *)
(* (Unbound / 0 while the local is not assigned yet), exc the exception    *)
(* that left the function.                                                 *)
(***************************************************************************)
Unbound == "<unbound>"

NewParse ==
    [amplifiers |-> <<>>, name |-> Unbound, amplifier |-> 0,
     heap |-> <<>>, exc |-> NoExc]

Raise(s, e) == [s EXCEPT !.exc = e]

\* record.amplifiers[name] = value
SetItem(d, k, v) == [x \in DOMAIN d \cup {k} |-> IF x = k THEN v ELSE d[x]]

\* OnPrimerName with the list kept when the name is already a key
OnPrimerName_KeepsList(s, line) ==
    LET name == line[Len(line)]
    IN [s EXCEPT !.name = name,
                 !.amplifiers = IF name \in DOMAIN s.amplifiers
                                THEN s.amplifiers
                                ELSE SetItem(s.amplifiers, name, <<>>)]

\* lines 58-60
OnPrimerName(s, line) ==
    LET name == line[Len(line)]
    IN [s EXCEPT !.name = name,
                 !.amplifiers = SetItem(s.amplifiers, name, <<>>)]

\* lines 61-63
OnAmplimer(s, line) ==
    LET obj == Len(s.heap) + 1
    IN IF s.name = Unbound
       THEN Raise([s EXCEPT !.heap = Append(@, Amplifier), !.amplifier = obj],
                  UnboundLocalError("name"))
       ELSE [s EXCEPT !.heap = Append(@, Amplifier),
                      !.amplifier = obj,
                      !.amplifiers[s.name] = Append(@, obj)]

\* lines 64-65
OnSequence(s, line) ==
    IF s.amplifier = 0
    THEN Raise(s, UnboundLocalError("amplifier"))
    ELSE [s EXCEPT !.heap[s.amplifier].contig_id = line[2]]

\* lines 66-68
OnLength(s, line) ==
    LET toks == after_length_marker(line)
    IN IF Len(toks) = 0 THEN Raise(s, IndexError)
       ELSE IF ~IsIntLiteral(toks[1]) THEN Raise(s, ValueError(toks[1]))
       ELSE IF s.amplifier = 0 THEN Raise(s, UnboundLocalError("amplifier"))
       ELSE [s EXCEPT !.heap[s.amplifier].contig_len = int(toks[1])]

\* OnForward with a short line skipped instead of indexed
OnForward_SkipsShort(s, line) ==
    IF Len(line) < 8 THEN s
    ELSE IF s.amplifier = 0 THEN Raise(s, UnboundLocalError("amplifier"))
    ELSE LET s1 == [s EXCEPT !.heap[s.amplifier].f_primer = lstrip_tab(line[1])]
         IN IF ~IsIntLiteral(line[6]) THEN Raise(s1, ValueError(line[6]))
            ELSE LET s2 == [s1 EXCEPT !.heap[s.amplifier].f_start = int(line[6])]
                 IN IF ~IsIntLiteral(line[8]) THEN Raise(s2, ValueError(line[8]))
                    ELSE [s2 EXCEPT !.heap[s.amplifier].f_mismatch = int(line[8])]

\* lines 69-74
OnForward(s, line) ==
    IF Len(line) < 6 THEN Raise(s, IndexError)
    ELSE IF Len(line) < 8 THEN Raise(s, IndexError)
    ELSE IF s.amplifier = 0 THEN Raise(s, UnboundLocalError("amplifier"))
    ELSE LET s1 == [s EXCEPT !.heap[s.amplifier].f_primer = lstrip_tab(line[1])]
         IN IF ~IsIntLiteral(line[6]) THEN Raise(s1, ValueError(line[6]))
            ELSE LET s2 == [s1 EXCEPT !.heap[s.amplifier].f_start = int(line[6])]
                 IN IF ~IsIntLiteral(line[8]) THEN Raise(s2, ValueError(line[8]))
                    ELSE [s2 EXCEPT !.heap[s.amplifier].f_mismatch = int(line[8])]

\* lines 75-80
OnReverse(s, line) ==
    IF Len(line) < 6 THEN Raise(s, IndexError)
    ELSE IF Len(line) < 8 THEN Raise(s, IndexError)
    ELSE IF s.amplifier = 0 THEN Raise(s, UnboundLocalError("amplifier"))
    ELSE LET r_start == strip_brackets(line[6])
             s1 == [s EXCEPT !.heap[s.amplifier].r_primer = lstrip_tab(line[1])]
         IN IF ~IsIntLiteral(r_start) THEN Raise(s1, ValueError(r_start))
            ELSE LET s2 == [s1 EXCEPT !.heap[s.amplifier].r_start = int(r_start)]
                 IN IF ~IsIntLiteral(line[8]) THEN Raise(s2, ValueError(line[8]))
                    ELSE [s2 EXCEPT !.heap[s.amplifier].r_mismatch = int(line[8])]

\* lines 81-83
OnAmplimerLength(s, line) ==
    LET length == line[Len(line) - 1]
    IN IF ~IsIntLiteral(length) THEN Raise(s, ValueError(length))
       ELSE IF s.amplifier = 0 THEN Raise(s, UnboundLocalError("amplifier"))
       ELSE [s EXCEPT !.heap[s.amplifier].amp_len = int(length)]

\* lines 56-85: the body of `for line in handle`
ParseLine(s, line) ==
    IF IsBlank(line) THEN s
    ELSE IF startswith_PrimerName(line) THEN OnPrimerName(s, line)
    ELSE IF startswith_Amplimer(line) THEN OnAmplimer(s, line)
    ELSE IF startswith_Sequence(line) THEN OnSequence(s, line)
    ELSE IF startswith_length(line) THEN OnLength(s, line)
    ELSE IF contains_forward_strand(line) THEN OnForward(s, line)
    ELSE IF contains_reverse_strand(line) THEN OnReverse(s, line)
    ELSE IF startswith_AmplimerLength(line) THEN OnAmplimerLength(s, line)
    ELSE s

\* the Amplifier objects of record.amplifiers[name], as values
Events(s, name) == [i \in 1..Len(s.amplifiers[name]) |-> s.heap[s.amplifiers[name][i]]]

(***************************************************************************)
(* read_amplicon_info: parse the file, then classify the primer ids.       *)
(* `for name in embossRecord.amplifiers` visits the keys of a dict in an   *)
(* order the language does not fix: order is any enumeration of the keys.  *)
(***************************************************************************)
Orders(S) == {o \in [1..Cardinality(S) -> S] : Range(o) = S}

RECURSIVE ContigHits(_, _)
\* lines 142-143, over the names of order
ContigHits(s, order) ==
    IF order = <<>> THEN <<>>
    ELSE LET ev == Events(s, Head(order))
         IN [i \in 1..Len(ev) |-> ev[i].contig_id] \o ContigHits(s, Tail(order))

RECURSIVE AmpLengths(_, _)
\* lines 142, 144, over the names of order
AmpLengths(s, order) ==
    IF order = <<>> THEN <<>>
    ELSE LET ev == Events(s, Head(order))
         IN [i \in 1..Len(ev) |-> ev[i].amp_len] \o AmpLengths(s, Tail(order))

\* lines 138-139
IsNoHit(s, name) == Len(s.amplifiers[name]) = 0

\* lines 140-141
IsMultiHit(s, name) == Len(s.amplifiers[name]) > 1

\* lines 130-146
Classify(s, order) ==
    [noHits |-> SelectSeq(order, LAMBDA n : IsNoHit(s, n)),
     contigHits |-> ContigHits(s, order),
     multiHits |-> SelectSeq(order, LAMBDA n : IsMultiHit(s, n)),
     ampLengths |-> AmpLengths(s, order)]

NoReturn == [noHits |-> <<>>, contigHits |-> <<>>, multiHits |-> <<>>, ampLengths |-> <<>>]

(***************************************************************************)
(* kraken-translate lines: the tab-separated columns of the line without   *)
(* its newline, each column the sequence of its ';'-separated segments.    *)
(* A dict key is a whole column; a label is one segment.                   *)
(***************************************************************************)
EmptyColumn == <<"">>

K_c1_AB == <<<<"c1">>, <<"A", "B">>>>
K_c1_Ac1 == <<<<"c1">>, <<"A", "c1">>>>
K_c2_B == <<<<"c2">>, <<"B">>>>
K_c2_c1 == <<<<"c2">>, <<"c1">>>>
K_NoTab == <<<<"c1">>>>
K_Empty == <<EmptyColumn>>
K_TrailingTab == <<<<"c1">>, EmptyColumn>>
K_Three == <<<<"c1">>, <<"A">>, <<"B">>>>

KrakenLines ==
    {K_c1_AB, K_c1_Ac1, K_c2_B, K_c2_c1, K_NoTab, K_Empty, K_TrailingTab, K_Three}

RECURSIVE rstrip(_)
\* line.rstrip(): trailing tabs go, and with them the empty columns they end
rstrip(line) ==
    IF Len(line) > 1 /\ line[Len(line)] = EmptyColumn
    THEN rstrip(SubSeq(line, 1, Len(line) - 1))
    ELSE line

\* the dict key a string without ';' is
Key(str) == <<str>>

\* read_kraken_labels_line reading the last column ([-1]) for the lineage
read_kraken_labels_line_LastColumn(taxonomy, line) ==
    LET cols == rstrip(line)
        contigId == cols[1]
        lineage == cols[Len(cols)]
    IN [dict |-> SetItem(taxonomy, contigId, lineage[Len(lineage)]), exc |-> NoExc]

\* lines 104-106: one iteration of read_kraken_labels
read_kraken_labels_line(taxonomy, line) ==
    LET cols == rstrip(line)
        contigId == cols[1]
    IN IF Len(cols) < 2
       THEN [dict |-> taxonomy, exc |-> IndexError]
       ELSE LET classification == cols[2][Len(cols[2])]
            IN [dict |-> SetItem(taxonomy, contigId, classification), exc |-> NoExc]

\* lines 178-183: one iteration of hash_kraken_labels
hash_kraken_labels_line(hash, line) ==
    LET cols == rstrip(line)
        contig == cols[1]
    IN IF Len(cols) < 2
       THEN [dict |-> hash, exc |-> IndexError]
       ELSE LET taxa == cols[2][Len(cols[2])]
            IN IF Key(taxa) \in DOMAIN hash
               THEN IF contig \in DOMAIN hash
                    THEN [dict |-> [hash EXCEPT ![contig] = Append(@, taxa)],
                          exc |-> NoExc]
                    ELSE [dict |-> hash, exc |-> KeyError(contig)]
               ELSE [dict |-> SetItem(hash, contig, <<taxa>>), exc |-> NoExc]

(***************************************************************************)
(* The kraken and batch-loop variables while they are not in use.          *)
(***************************************************************************)
IdleKraken ==
    /\ labels = <<>>
    /\ rk = [pos |-> 0, taxonomy |-> <<>>, exc |-> NoExc, pc |-> "idle"]
    /\ hk = [pos |-> 0, hash |-> <<>>, exc |-> NoExc, pc |-> "idle"]

IdleMain ==
    /\ emboss_paths = <<>>
    /\ unit = 0
    /\ mpc = "idle"
    /\ hash_labels = <<>>
    /\ nread = 0
    /\ record = NewParse
    /\ todo = {}
    /\ cur = [primer_id |-> "", hit_count |-> 0, i |-> 0]
    /\ outfile = <<>>
    /\ exc = NoExc

IdleParse ==
    /\ handle = <<>>
    /\ st = NewParse
    /\ pc = "idle"
    /\ ret = NoReturn

krakenVars == <<labels, rk, hk>>
mainVars == <<emboss_paths, unit, mpc, hash_labels, nread, record, todo, cur, outfile, exc>>
parseVars == <<handle, st, pc, ret>>

(***************************************************************************)
(* SpecParse: read_amplicon_info on every file of at most MaxLines lines.  *)
(***************************************************************************)
InitParse ==
    /\ handle = <<>>
    /\ st = NewParse
    /\ pc = "parse"
    /\ ret = NoReturn
    /\ IdleKraken
    /\ IdleMain

\* one iteration of `for line in handle` (lines 55-85)
ReadLine ==
    /\ pc = "parse"
    /\ Len(handle) < MaxLines
    /\ \E line \in ReportLines :
        LET s2 == ParseLine(st, line)
        IN /\ handle' = Append(handle, line)
           /\ st' = s2
           /\ pc' = IF s2.exc = NoExc THEN "parse" ELSE "raised"
    /\ UNCHANGED <<ret, krakenVars, mainVars>>

\* end of file: return record (line 87)
ReturnRecord ==
    /\ pc = "parse"
    /\ pc' = "parsed"
    /\ UNCHANGED <<handle, st, ret, krakenVars, mainVars>>

\* lines 137-146
ClassifyHits ==
    /\ pc = "parsed"
    /\ \E order \in Orders(DOMAIN st.amplifiers) : ret' = Classify(st, order)
    /\ pc' = "returned"
    /\ UNCHANGED <<handle, st, krakenVars, mainVars>>

NextParse == ReadLine \/ ReturnRecord \/ ClassifyHits

SpecParse == InitParse /\ [][NextParse]_vars

(***************************************************************************)
(* What the lines read so far say, independently of the parser's state.    *)
(***************************************************************************)
Last(h) == h[Len(h)]

IsPrimerNameLine(line) == ~IsBlank(line) /\ startswith_PrimerName(line)

IsAmplimerLine(line) ==
    ~IsBlank(line) /\ ~startswith_PrimerName(line) /\ startswith_Amplimer(line)

\* the line is claimed by a branch tested before the strand branches
ClaimedByEarlierMarker(line) ==
    \/ IsBlank(line)
    \/ startswith_PrimerName(line)
    \/ startswith_Amplimer(line)
    \/ startswith_Sequence(line)
    \/ startswith_length(line)

PrimerNamesOf(h) == {Last(h[i]) : i \in {j \in 1..Len(h) : IsPrimerNameLine(h[j])}}

\* the k-th "Amplimer" line of the file creates the k-th Amplifier object
AmplimerOrdinal(h, i) == Cardinality({j \in 1..i : IsAmplimerLine(h[j])})

\* the last "Primer name" line carrying name
LastPrimerLine(h, name) ==
    CHOOSE i \in 1..Len(h) :
        /\ IsPrimerNameLine(h[i]) /\ Last(h[i]) = name
        /\ \A j \in (i + 1)..Len(h) : ~(IsPrimerNameLine(h[j]) /\ Last(h[j]) = name)

\* the lines of the block opened by the "Primer name" line at p
BlockOf(h, p) ==
    {i \in (p + 1)..Len(h) : \A j \in (p + 1)..i : ~IsPrimerNameLine(h[j])}

RECURSIVE Ascending(_)
Ascending(S) ==
    IF S = {} THEN <<>>
    ELSE LET m == CHOOSE x \in S : \A y \in S : x <= y
         IN <<m>> \o Ascending(S \ {m})

\* one event per "Amplimer" line of the last block of name, in line order
ExpectedEvents(h, name) ==
    Ascending({AmplimerOrdinal(h, i) :
                  i \in {j \in BlockOf(h, LastPrimerLine(h, name)) : IsAmplimerLine(h[j])}})

\* C1: when read_primersearch_result returns, the keys of record.amplifiers
\* are the primer names of the "Primer name" lines read, and each name maps
\* to exactly one event per "Amplimer" line read between the last
\* "Primer name" line carrying that name and the next "Primer name" line
\* (or the end of the input), in the order those lines were read.
C1_OneEventPerAmplimerLine ==
    pc \in {"parsed", "returned"} =>
        /\ DOMAIN st.amplifiers = PrimerNamesOf(handle)
        /\ \A name \in PrimerNamesOf(handle) :
               st.amplifiers[name] = ExpectedEvents(handle, name)

\* a parse that returned a primer pair with two Amplimer blocks, after a
\* "Primer name" line that reset an earlier list
C1_Witness ==
    /\ pc = "parsed"
    /\ \E name \in DOMAIN st.amplifiers : Len(st.amplifiers[name]) = 2
    /\ Len(st.heap) = 3

\* the primer ids an exception-free read_amplicon_info hands back
ReturnedPrimerIds == Range(ret.noHits) \cup Range(ret.multiHits)

\* C3: read_amplicon_info puts every primer-pair name in exactly one
\* returned class: zero events in noHits, two or more in multiHits, exactly
\* one in the list of unique hits; the classes are disjoint and cover all
\* primer-pair names of the report.
C3_HitClassesCoverAllNames ==
    pc = "returned" =>
        /\ Range(ret.noHits) \cap Range(ret.multiHits) = {}
        /\ \A name \in DOMAIN st.amplifiers :
               /\ Len(st.amplifiers[name]) = 0 => name \in Range(ret.noHits)
               /\ Len(st.amplifiers[name]) > 1 => name \in Range(ret.multiHits)
               /\ name \in ReturnedPrimerIds

\* the exception text names the input line
Mentions(e, line) ==
    \E i \in 0..(Len(e.arg) - Len(line)) : SubSeq(e.arg, i + 1, i + Len(line)) = line

\* token[5] of a strand line as the claim reads it (brackets stripped on a
\* reverse strand line)
StrandStart(line) ==
    IF contains_forward_strand(line) THEN line[6] ELSE strip_brackets(line[6])

IsStrandLine(line) == contains_forward_strand(line) \/ contains_reverse_strand(line)

MalformedStrandLine(line) ==
    /\ IsStrandLine(line)
    /\ \/ Len(line) < 8
       \/ ~IsIntLiteral(StrandStart(line))
       \/ ~IsIntLiteral(line[8])

IsFieldLine(line) ==
    /\ ~IsBlank(line) /\ ~startswith_PrimerName(line) /\ ~startswith_Amplimer(line)
    /\ \/ startswith_Sequence(line) \/ startswith_length(line) \/ IsStrandLine(line)
       \/ startswith_AmplimerLength(line)

\* the last marker line read is a "Primer name" line: no Amplimer block of
\* the new primer pair is open
AfterPrimerNameBeforeAmplimer(h) ==
    \E p \in 1..Len(h) :
        /\ IsPrimerNameLine(h[p])
        /\ \A j \in (p + 1)..Len(h) : ~IsPrimerNameLine(h[j]) /\ ~IsAmplimerLine(h[j])

\* C10: a field line read after a "Primer name" line and before any
\* "Amplimer" line of that primer pair changes no event already stored.
C10_FieldLineLeavesStoredEvents ==
    [][(/\ pc = "parse"
        /\ handle' # handle
        /\ AfterPrimerNameBeforeAmplimer(handle)
        /\ IsFieldLine(Last(handle')))
       => \A name \in DOMAIN st.amplifiers : Events(st', name) = Events(st, name)]_vars

(***************************************************************************)
(* SpecKraken: read_kraken_labels and hash_kraken_labels, each run on the  *)
(* same kraken-translate file of at most MaxLabelLines lines.              *)
(***************************************************************************)
InitKraken ==
    /\ labels \in SeqsUpTo(KrakenLines, MaxLabelLines)
    /\ rk = [pos |-> 0, taxonomy |-> <<>>, exc |-> NoExc, pc |-> "run"]
    /\ hk = [pos |-> 0, hash |-> <<>>, exc |-> NoExc, pc |-> "run"]
    /\ IdleParse
    /\ IdleMain

\* read_kraken_labels: one iteration of `for line in handle`
ReadKrakenLine ==
    /\ rk.pc = "run"
    /\ rk.pos < Len(labels)
    /\ LET r == read_kraken_labels_line(rk.taxonomy, labels[rk.pos + 1])
       IN rk' = [pos |-> rk.pos + 1, taxonomy |-> r.dict, exc |-> r.exc,
                 pc |-> IF r.exc = NoExc THEN "run" ELSE "raised"]
    /\ UNCHANGED <<labels, hk, parseVars, mainVars>>

\* read_kraken_labels: return record (line 107)
ReadKrakenReturn ==
    /\ rk.pc = "run"
    /\ rk.pos = Len(labels)
    /\ rk' = [rk EXCEPT !.pc = "returned"]
    /\ UNCHANGED <<labels, hk, parseVars, mainVars>>

\* hash_kraken_labels: one iteration of `for line in labels`
HashKrakenLine ==
    /\ hk.pc = "run"
    /\ hk.pos < Len(labels)
    /\ LET r == hash_kraken_labels_line(hk.hash, labels[hk.pos + 1])
       IN hk' = [pos |-> hk.pos + 1, hash |-> r.dict, exc |-> r.exc,
                 pc |-> IF r.exc = NoExc THEN "run" ELSE "raised"]
    /\ UNCHANGED <<labels, rk, parseVars, mainVars>>

\* hash_kraken_labels: return hash (line 185)
HashKrakenReturn ==
    /\ hk.pc = "run"
    /\ hk.pos = Len(labels)
    /\ hk' = [hk EXCEPT !.pc = "returned"]
    /\ UNCHANGED <<labels, rk, parseVars, mainVars>>

NextKraken == ReadKrakenLine \/ ReadKrakenReturn \/ HashKrakenLine \/ HashKrakenReturn

SpecKraken == InitKraken /\ [][NextKraken]_vars

\* two tab-separated columns, none of them empty
IsTwoColumnLine(line) ==
    Len(line) = 2 /\ line[1] # EmptyColumn /\ line[2] # EmptyColumn

ContigsOf(file) == {file[i][1] : i \in 1..Len(file)}

\* the last segment of the lineage on the last line carrying contig
LastLabelOf(file, contig) ==
    LET i == CHOOSE k \in 1..Len(file) :
                 /\ file[k][1] = contig
                 /\ \A j \in (k + 1)..Len(file) : file[j][1] # contig
    IN file[i][2][Len(file[i][2])]

\* C4: on a file of two-column lines building the hash never fails, and for
\* every contig of the file hash_kraken_labels(file)[contig][0] is the label
\* read_kraken_labels yields: the last segment of the lineage of the last
\* line carrying the contig.
C4_HashAgreesWithTaxonomy ==
    (/\ \A i \in 1..Len(labels) : IsTwoColumnLine(labels[i])
     /\ rk.pc # "run"
     /\ hk.pc # "run") =>
        /\ rk.pc = "returned"
        /\ hk.pc = "returned"
        /\ \A contig \in ContigsOf(labels) :
               /\ rk.taxonomy[contig] = LastLabelOf(labels, contig)
               /\ hk.hash[contig][1] = rk.taxonomy[contig]

\* C9 as stated: a file holding a line that is not exactly two
\* tab-separated columns is accepted by neither parser.
C9_NonTwoColumnLineRejected ==
    (\E i \in 1..Len(labels) : Len(labels[i]) # 2) =>
        /\ rk.pc # "returned"
        /\ hk.pc # "returned"

\* no second column is left once trailing whitespace is stripped
LacksSecondColumn(line) == Len(rstrip(line)) < 2

\* C9 amended: a line without a second column after the rstrip (no tab, an
\* empty line, a tab with nothing behind it) fails both parsers with
\* IndexError, and nothing else does; a line of three or more columns is
\* accepted, read_kraken_labels mapping its first column to the last
\* segment of its second.
C9_OnlyMissingColumnRejected ==
    /\ rk.pc = "returned" =>
           /\ \A i \in 1..Len(labels) : ~LacksSecondColumn(labels[i])
           /\ DOMAIN rk.taxonomy = ContigsOf(labels)
           /\ \A contig \in ContigsOf(labels) :
                  rk.taxonomy[contig] = LastLabelOf(labels, contig)
    /\ rk.pc = "raised" =>
           /\ rk.exc = IndexError
           /\ LacksSecondColumn(labels[rk.pos])
           /\ \A i \in 1..(rk.pos - 1) : ~LacksSecondColumn(labels[i])
    /\ hk.pc = "returned" => \A i \in 1..Len(labels) : ~LacksSecondColumn(labels[i])
    /\ (hk.pc = "raised" /\ hk.exc = IndexError) => LacksSecondColumn(labels[hk.pos])
    /\ (hk.pc = "run" /\ hk.pos > 0) => ~LacksSecondColumn(labels[hk.pos])

\* a three-column line was accepted and a line without a tab then failed
C9_Witness ==
    /\ labels = <<K_Three, K_NoTab>>
    /\ rk.pc = "raised"
    /\ rk.taxonomy = SetItem(<<>>, <<"c1">>, "A")
    /\ hk.pc = "raised"
    /\ hk.exc = IndexError

(***************************************************************************)
(* SpecMain: the script body (lines 196-264).  A file name is the file's   *)
(* index in emboss_paths.  The files of a unit are read as streams: each   *)
(* read yields any line of the unit vocabulary, and a file ends after at   *)
(* most MaxUnitLabels / MaxUnitLines lines.  mpc is the statement the      *)
(* script is at; an uncaught exception (exc # NoExc) ends the process      *)
(* there.  During "hash" hash_labels holds the local `hash` of             *)
(* hash_kraken_labels, during "parse" record holds the locals of           *)
(* read_primersearch_result.  outfile is the rows written after the        *)
(* header; bytes(str) without an encoding is the Python 2 identity the     *)
(* script is written for.  `for primer_id in record.amplifiers` visits the *)
(* keys in any order (NextPrimer).                                         *)
(***************************************************************************)
UnitKrakenLines == {K_c1_AB, K_NoTab}

UnitReportLines == {L_P1, L_P2, L_Amp, L_Seq1, L_Seq2, L_FwdShort}

\* Row with the number of labels of the contig as the hit count
Row_LabelCount(primer_id, hit_count, filename, amplifier, labelsOf) ==
    [PrimerId |-> primer_id,
     Hits |-> Len(labelsOf[Key(amplifier.contig_id)]),
     RefId |-> filename,
     ContigId |-> amplifier.contig_id,
     AmpLength |-> amplifier.amp_len,
     Taxa |-> labelsOf[Key(amplifier.contig_id)][1],
     ForwardMismatch |-> amplifier.f_mismatch,
     ReverseMismatch |-> amplifier.r_mismatch,
     ForwardStart |-> amplifier.f_start,
     ReverseStart |-> amplifier.r_start,
     ForwardPrimerSeq |-> amplifier.f_primer,
     ReversePrimerSeq |-> amplifier.r_primer,
     Orthogroup |-> "tbd"]

\* lines 245-259: the row of one amplifier
Row(primer_id, hit_count, filename, amplifier, labelsOf) ==
    [PrimerId |-> primer_id,
     Hits |-> hit_count,
     RefId |-> filename,
     ContigId |-> amplifier.contig_id,
     AmpLength |-> amplifier.amp_len,
     Taxa |-> labelsOf[Key(amplifier.contig_id)][1],
     ForwardMismatch |-> amplifier.f_mismatch,
     ReverseMismatch |-> amplifier.r_mismatch,
     ForwardStart |-> amplifier.f_start,
     ReverseStart |-> amplifier.r_start,
     ForwardPrimerSeq |-> amplifier.f_primer,
     ReversePrimerSeq |-> amplifier.r_primer,
     Orthogroup |-> "tbd"]

InitMain ==
    /\ emboss_paths \in {[i \in 1..n |-> i] : n \in 0..MaxUnits}
    /\ unit = 0
    /\ mpc = "start"
    /\ hash_labels = <<>>
    /\ nread = 0
    /\ record = NewParse
    /\ todo = {}
    /\ cur = [primer_id |-> "", hit_count |-> 0, i |-> 0]
    /\ outfile = <<>>
    /\ exc = NoExc
    /\ IdleParse
    /\ IdleKraken

\* control is at line 224: before the first file, or both loops of the
\* current unit (lines 239, 243) are exhausted
AtForFile ==
    \/ mpc = "start"
    \/ mpc = "rows" /\ cur.i = cur.hit_count /\ todo = {}

\* the names of the finished unit are rebound (lines 233, 237, 239-243)
\* before they are read again
Rebound ==
    /\ hash_labels' = <<>>
    /\ nread' = 0
    /\ record' = NewParse
    /\ todo' = {}
    /\ cur' = [primer_id |-> "", hit_count |-> 0, i |-> 0]

\* line 224: the next file of emboss_paths; line 233 calls hash_kraken_labels
NextFile ==
    /\ exc = NoExc
    /\ AtForFile
    /\ unit < Len(emboss_paths)
    /\ unit' = unit + 1
    /\ mpc' = "hash"
    /\ Rebound
    /\ UNCHANGED <<emboss_paths, outfile, exc, parseVars, krakenVars>>

\* line 264: emboss_paths is exhausted
CloseOutfile ==
    /\ exc = NoExc
    /\ AtForFile
    /\ unit = Len(emboss_paths)
    /\ mpc' = "closed"
    /\ Rebound
    /\ UNCHANGED <<emboss_paths, unit, outfile, exc, parseVars, krakenVars>>

\* lines 177-183 under line 233: one line of the unit's labels file
HashLabelsLine ==
    /\ exc = NoExc
    /\ mpc = "hash"
    /\ nread < MaxUnitLabels
    /\ \E line \in UnitKrakenLines :
        LET r == hash_kraken_labels_line(hash_labels, line)
        IN /\ hash_labels' = r.dict
           /\ exc' = r.exc
    /\ nread' = nread + 1
    /\ UNCHANGED <<emboss_paths, unit, mpc, record, todo, cur, outfile,
                   parseVars, krakenVars>>

\* line 185 returns the hash; lines 235-237 open the emboss file and call
\* read_primersearch_result
HashLabelsReturn ==
    /\ exc = NoExc
    /\ mpc = "hash"
    /\ mpc' = "parse"
    /\ record' = NewParse
    /\ nread' = 0
    /\ UNCHANGED <<emboss_paths, unit, hash_labels, todo, cur, outfile, exc,
                   parseVars, krakenVars>>

\* ParseReportLine writing a row as soon as a labelled contig is read
ParseReportLine_Streaming ==
    /\ exc = NoExc
    /\ mpc = "parse"
    /\ nread < MaxUnitLines
    /\ \E line \in UnitReportLines :
        LET s2 == ParseLine(record, line)
        IN /\ record' = s2
           /\ exc' = s2.exc
           /\ outfile' =
                 IF /\ s2.exc = NoExc
                    /\ startswith_Sequence(line)
                    /\ Key(line[2]) \in DOMAIN hash_labels
                 THEN Append(outfile,
                             Row(s2.name, 1, emboss_paths[unit],
                                 s2.heap[s2.amplifier], hash_labels))
                 ELSE outfile
    /\ nread' = nread + 1
    /\ UNCHANGED <<emboss_paths, unit, mpc, hash_labels, todo, cur,
                   parseVars, krakenVars>>

\* lines 55-85 under line 237: one line of the unit's emboss file
ParseReportLine ==
    /\ exc = NoExc
    /\ mpc = "parse"
    /\ nread < MaxUnitLines
    /\ \E line \in UnitReportLines :
        LET s2 == ParseLine(record, line)
        IN /\ record' = s2
           /\ exc' = s2.exc
    /\ nread' = nread + 1
    /\ UNCHANGED <<emboss_paths, unit, mpc, hash_labels, todo, cur, outfile,
                   parseVars, krakenVars>>

\* line 87 returns the record; line 239 starts the loop over its primer ids
ParseReportReturn ==
    /\ exc = NoExc
    /\ mpc = "parse"
    /\ mpc' = "rows"
    /\ todo' = DOMAIN record.amplifiers
    /\ cur' = [primer_id |-> "", hit_count |-> 0, i |-> 0]
    /\ UNCHANGED <<emboss_paths, unit, hash_labels, nread, record, outfile, exc,
                   parseVars, krakenVars>>

\* lines 239-241: the next primer id, in the dict's order, and its hit count
NextPrimer ==
    /\ exc = NoExc
    /\ mpc = "rows"
    /\ cur.i = cur.hit_count
    /\ \E primer_id \in todo :
        /\ cur' = [primer_id |-> primer_id,
                   hit_count |-> Len(record.amplifiers[primer_id]),
                   i |-> 0]
        /\ todo' = todo \ {primer_id}
    /\ UNCHANGED <<emboss_paths, unit, mpc, hash_labels, nread, record, outfile, exc,
                   parseVars, krakenVars>>

\* WriteRow with a default label for a contig that has none
WriteRow_DefaultLabel ==
    /\ exc = NoExc
    /\ mpc = "rows"
    /\ cur.i < cur.hit_count
    /\ LET amplifier == Events(record, cur.primer_id)[cur.i + 1]
           labelsOf == IF Key(amplifier.contig_id) \in DOMAIN hash_labels
                       THEN hash_labels
                       ELSE SetItem(hash_labels, Key(amplifier.contig_id),
                                    <<"Unclassified">>)
       IN outfile' = Append(outfile,
                            Row(cur.primer_id, cur.hit_count,
                                emboss_paths[unit], amplifier, labelsOf))
    /\ exc' = NoExc
    /\ cur' = [cur EXCEPT !.i = @ + 1]
    /\ UNCHANGED <<emboss_paths, unit, mpc, hash_labels, nread, record, todo,
                   parseVars, krakenVars>>

\* lines 243-262: the row of the next amplifier of the primer id
WriteRow ==
    /\ exc = NoExc
    /\ mpc = "rows"
    /\ cur.i < cur.hit_count
    /\ LET amplifier == Events(record, cur.primer_id)[cur.i + 1]
       IN IF Key(amplifier.contig_id) \in DOMAIN hash_labels
          THEN /\ outfile' = Append(outfile,
                                    Row(cur.primer_id, cur.hit_count,
                                        emboss_paths[unit], amplifier, hash_labels))
               /\ exc' = NoExc
          ELSE /\ outfile' = outfile
               /\ exc' = KeyError(Key(amplifier.contig_id))
    /\ cur' = [cur EXCEPT !.i = @ + 1]
    /\ UNCHANGED <<emboss_paths, unit, mpc, hash_labels, nread, record, todo,
                   parseVars, krakenVars>>

NextMain ==
    \/ NextFile \/ CloseOutfile
    \/ HashLabelsLine \/ HashLabelsReturn
    \/ ParseReportLine \/ ParseReportReturn
    \/ NextPrimer \/ WriteRow

SpecMain == InitMain /\ [][NextMain]_vars

(***************************************************************************)
(* Properties of the batch loop.                                           *)
(***************************************************************************)
\* the rows of the report written for the current unit
RowsOfUnit == SelectSeq(outfile, LAMBDA row : row.RefId = emboss_paths[unit])

RowsOfPrimer(name) == SelectSeq(RowsOfUnit, LAMBDA row : row.PrimerId = name)

\* both loops over the unit's record have run to their end
UnitComplete == mpc = "rows" /\ exc = NoExc /\ cur.i = cur.hit_count /\ todo = {}

\* every amplified contig of the unit has an entry in the unit's labels
AllLabelled ==
    \A name \in DOMAIN record.amplifiers :
        \A i \in 1..Len(record.amplifiers[name]) :
            Key(Events(record, name)[i].contig_id) \in DOMAIN hash_labels

EventsParsed ==
    UNION {{name} \X (1..Len(record.amplifiers[name])) : name \in DOMAIN record.amplifiers}

NextAmplifier == Events(record, cur.primer_id)[cur.i + 1]

\* C5: when the contig of the event to be written has no entry in the
\* unit's labels, the step raises KeyError and writes no row for the event.
C5_MissingLabelRaises ==
    [][(/\ mpc = "rows"
        /\ exc = NoExc
        /\ cur.i < cur.hit_count
        /\ Key(NextAmplifier.contig_id) \notin DOMAIN hash_labels)
       => (exc'.type = "KeyError" /\ outfile' = outfile)]_vars

\* the row loop stopped at an event of an unlabelled contig, after a row
\* of the unit had been written
C5_Witness ==
    /\ mpc = "rows"
    /\ exc = KeyError(Key("c2"))
    /\ RowsOfUnit # <<>>

\* C6: while the labels file or the emboss file of the unit is being
\* parsed, and when either parse has failed, the report holds no row of
\* the unit.
C6_NoRowBeforeBothParsed ==
    mpc \in {"hash", "parse"} => RowsOfUnit = <<>>

\* the second unit failed in its emboss file after the first had written
C6_Witness ==
    /\ mpc = "parse"
    /\ exc = IndexError
    /\ unit = 2
    /\ outfile # <<>>
    /\ Len(record.heap) > 0

\* C7: a parse failure in a unit leaves no later file of the run
\* unprocessed.
C7_FailedUnitDoesNotBlock ==
    (exc # NoExc /\ mpc \in {"hash", "parse"}) => unit = Len(emboss_paths)

====
